---- MODULE Spec2Model ----
(***************************************************************************)
(* Model of core/middleware.py: RequestLoggingMiddleware.                  *)
(*                                                                         *)
(* One middleware instance is shared by NumInv invocations of __call__,    *)
(* which the host framework may run concurrently.  Each invocation has its *)
(* own frame (request, start_time, response, end_time, duration); the only *)
(* instance attribute is get_response.  The wall clock, the downstream     *)
(* handler and the logging facility are the environment: a clock reading   *)
(* is any value of Clock (time.time is not monotonic), the downstream      *)
(* handler either returns its response for the request or raises one of    *)
(* its errors, and the logging statement either hands its record to the    *)
(* logger (the record is then emitted) or raises.                          *)
(*                                                                         *)
(* Time is counted in ticks; TicksPerMs ticks make one millisecond.        *)
(***************************************************************************)
EXTENDS Integers, Sequences, FiniteSets

\* ---------------------------------------------------------------- bounds
NumInv == 2
MaxClock == 3
TicksPerMs == 3

Inv == 1..NumInv
Clock == 0..MaxClock

\* ------------------------------------------------------------ value sets
None == [kind |-> "none"]

\* The downstream handler the host framework supplies to __init__.
Handlers == {"view"}

MetaWithAgent == [k \in {"HTTP_HOST", "HTTP_USER_AGENT"} |->
                    IF k = "HTTP_HOST" THEN "localhost" ELSE "curl/8.0"]
MetaNoAgent == [k \in {"HTTP_HOST"} |-> "localhost"]

Requests ==
  { [method |-> "GET", path |-> "/health/", META |-> MetaWithAgent],
    [method |-> "POST", path |-> "/items/", META |-> MetaNoAgent] }

DownstreamErrors == {"Http404", "ValueError"}
LoggingErrors == {"OSError", "KeyError"}

\* The response a handler produces for a request when it does not raise.
Respond(handler, req) ==
  IF handler = "view" /\ req.path = "/health/"
    THEN [status_code |-> 200, content |-> "ok"]
    ELSE [status_code |-> 404, content |-> "missing"]

\* ------------------------------------------------------- pure operations
\* dict.get(key, default)
DictGet(d, key, default) == IF key \in DOMAIN d THEN d[key] ELSE default

\* int(x) for x = ticks / TicksPerMs: truncation toward zero
PyIntFloor(ticks) == ticks \div TicksPerMs
PyInt(ticks) == IF ticks >= 0 THEN ticks \div TicksPerMs
                              ELSE -((-ticks) \div TicksPerMs)

\* int((time.time() - start_time) * 1000), the clock readings in ticks
DurationMs(start, end) == PyInt(end - start)

\* request.META.get("HTTP_USER_AGENT", "-")
UserAgentNoDefault(req) == DictGet(req.META, "HTTP_USER_AGENT", "")
UserAgent(req) == DictGet(req.META, "HTTP_USER_AGENT", "-")

\* the `extra` dict of the logger.info call
Extra(req, resp, dur) ==
  [ method |-> req.method,
    path |-> req.path,
    status |-> resp.status_code,
    duration |-> dur,
    user_agent |-> UserAgent(req) ]

\* ------------------------------------------------------------------ state
VARIABLES
  get_response,   \* instance attribute set by __init__
  supplied,       \* the handler the host framework gave to __init__
  pc,             \* position of each invocation of __call__
  request,        \* frame locals of each invocation
  start_time,
  response,
  end_time,       \* the second time.time() reading
  duration,
  clock_read,     \* the clock readings each invocation in flight has made
  received,       \* the request the caller passed to __call__
  calls,          \* downstream calls made by each invocation
  produced,       \* what the downstream handler produced for each invocation
  log_result,     \* how the logging statement of each invocation ended
  emitted,        \* records handed to the logger by each invocation
  outcome,        \* what the caller of each invocation observed
  trace           \* the events of each invocation, in order

vars == << get_response, supplied, pc, request, start_time, response, end_time,
           duration, clock_read, received, calls, produced, log_result,
           emitted, outcome, trace >>

instance == << get_response, supplied >>
locals == << request, start_time, response, end_time, duration, clock_read >>

\* __init__(get_response), for every handler the framework may supply
Init ==
  /\ supplied \in Handlers
  /\ get_response = supplied
  /\ pc = [i \in Inv |-> "idle"]
  /\ request = [i \in Inv |-> None]
  /\ start_time = [i \in Inv |-> None]
  /\ response = [i \in Inv |-> None]
  /\ end_time = [i \in Inv |-> None]
  /\ duration = [i \in Inv |-> None]
  /\ clock_read = [i \in Inv |-> << >>]
  /\ received = [i \in Inv |-> None]
  /\ calls = [i \in Inv |-> << >>]
  /\ produced = [i \in Inv |-> None]
  /\ log_result = [i \in Inv |-> None]
  /\ emitted = [i \in Inv |-> << >>]
  /\ outcome = [i \in Inv |-> None]
  /\ trace = [i \in Inv |-> << >>]

\* Invocations are numbered in order of arrival.
Arrived(i) == \A j \in Inv : j < i => pc[j] # "idle"

\* The frame of a finished invocation is gone.
DropFrame(i) ==
  /\ request' = [request EXCEPT ![i] = None]
  /\ start_time' = [start_time EXCEPT ![i] = None]
  /\ response' = [response EXCEPT ![i] = None]
  /\ end_time' = [end_time EXCEPT ![i] = None]
  /\ duration' = [duration EXCEPT ![i] = None]
  /\ clock_read' = [clock_read EXCEPT ![i] = << >>]

\* ---------------------------------------------------------------- actions
\* A variant of Call that keeps the start timestamp on the instance, where
\* every invocation in flight reads it.
CallSharedStart(i, req, now) ==
  /\ pc[i] = "idle"
  /\ Arrived(i)
  /\ received' = [received EXCEPT ![i] = req]
  /\ request' = [request EXCEPT ![i] = req]
  /\ start_time' = [j \in Inv |-> IF j = i \/ pc[j] = "downstream"
                                    THEN now ELSE start_time[j]]
  /\ clock_read' = [clock_read EXCEPT ![i] = << now >>]
  /\ calls' = [calls EXCEPT ![i] =
                 Append(@, [handler |-> get_response, request |-> req])]
  /\ trace' = [trace EXCEPT ![i] = Append(@, "call")]
  /\ pc' = [pc EXCEPT ![i] = "downstream"]
  /\ UNCHANGED << instance, response, end_time, duration, produced,
                  log_result, emitted, outcome >>

\* A variant of Call that logs the request on entry.
CallLogFirst(i, req, now) ==
  /\ pc[i] = "idle"
  /\ Arrived(i)
  /\ received' = [received EXCEPT ![i] = req]
  /\ request' = [request EXCEPT ![i] = req]
  /\ start_time' = [start_time EXCEPT ![i] = now]
  /\ clock_read' = [clock_read EXCEPT ![i] = << now >>]
  /\ emitted' = [emitted EXCEPT ![i] =
                   Append(@, Extra(req, [status_code |-> 0], 0))]
  /\ calls' = [calls EXCEPT ![i] =
                 Append(@, [handler |-> get_response, request |-> req])]
  /\ trace' = [trace EXCEPT ![i] = << "log", "call" >>]
  /\ pc' = [pc EXCEPT ![i] = "downstream"]
  /\ UNCHANGED << instance, response, end_time, duration, produced,
                  log_result, outcome >>

\* __call__(request): start_time = time.time(), then get_response(request)
\* is entered.
Call(i, req, now) ==
  /\ pc[i] = "idle"
  /\ Arrived(i)
  /\ received' = [received EXCEPT ![i] = req]
  /\ request' = [request EXCEPT ![i] = req]
  /\ start_time' = [start_time EXCEPT ![i] = now]
  /\ clock_read' = [clock_read EXCEPT ![i] = << now >>]
  /\ calls' = [calls EXCEPT ![i] =
                 Append(@, [handler |-> get_response, request |-> request'[i]])]
  /\ trace' = [trace EXCEPT ![i] = Append(@, "call")]
  /\ pc' = [pc EXCEPT ![i] = "downstream"]
  /\ UNCHANGED << instance, response, end_time, duration, produced,
                  log_result, emitted, outcome >>

\* What the handler entered by invocation i returns if it does not raise.
Downstream(i) == Respond(calls[i][Len(calls[i])].handler,
                         calls[i][Len(calls[i])].request)

\* A variant of DownstreamRaise that calls the handler again.
DownstreamRaiseRetry(i, exc) ==
  /\ pc[i] = "downstream"
  /\ Len(calls[i]) < 2
  /\ calls' = [calls EXCEPT ![i] =
                 Append(@, [handler |-> get_response, request |-> request[i]])]
  /\ trace' = [trace EXCEPT ![i] = Append(@, "call")]
  /\ UNCHANGED << instance, pc, locals, received, produced, log_result,
                  emitted, outcome >>

\* A variant of DownstreamRaise that logs the failure and raises its own error.
DownstreamRaiseLogged(i, exc) ==
  /\ pc[i] = "downstream"
  /\ produced' = [produced EXCEPT ![i] = [kind |-> "raise", val |-> exc]]
  /\ emitted' = [emitted EXCEPT ![i] =
                   Append(@, Extra(request[i], [status_code |-> 500], 0))]
  /\ outcome' = [outcome EXCEPT ![i] =
                   [kind |-> "raise", val |-> "MiddlewareError"]]
  /\ trace' = [trace EXCEPT ![i] = Append(@, "raise")]
  /\ pc' = [pc EXCEPT ![i] = "raised"]
  /\ DropFrame(i)
  /\ UNCHANGED << instance, received, calls, log_result >>

\* get_response raises exc: nothing in __call__ catches it.
DownstreamRaise(i, exc) ==
  /\ pc[i] = "downstream"
  /\ produced' = [produced EXCEPT ![i] = [kind |-> "raise", val |-> exc]]
  /\ outcome' = [outcome EXCEPT ![i] = [kind |-> "raise", val |-> exc]]
  /\ trace' = [trace EXCEPT ![i] = Append(@, "raise")]
  /\ pc' = [pc EXCEPT ![i] = "raised"]
  /\ DropFrame(i)
  /\ UNCHANGED << instance, received, calls, log_result, emitted >>

\* get_response returns, duration = int((time.time() - start_time) * 1000)
\* is computed and the logging statement is reached.
ResponseObtained(i, now) ==
  /\ pc[i] = "downstream"
  /\ produced' = [produced EXCEPT ![i] =
                    [kind |-> "response", val |-> Downstream(i)]]
  /\ response' = [response EXCEPT ![i] = Downstream(i)]
  /\ end_time' = [end_time EXCEPT ![i] = now]
  /\ clock_read' = [clock_read EXCEPT ![i] = Append(@, now)]
  /\ duration' = [duration EXCEPT ![i] = DurationMs(start_time[i], now)]
  /\ UNCHANGED << instance, request, start_time, received, calls >>

\* A variant of LogEmit that writes the record twice.
LogEmitTwice(i, now) ==
  /\ ResponseObtained(i, now)
  /\ log_result' = [log_result EXCEPT ![i] = [kind |-> "ok"]]
  /\ emitted' = [emitted EXCEPT ![i] =
                   @ \o << Extra(request'[i], response'[i], duration'[i]),
                           Extra(request'[i], response'[i], duration'[i]) >>]
  /\ trace' = [trace EXCEPT ![i] = @ \o << "response", "log" >>]
  /\ pc' = [pc EXCEPT ![i] = "return"]
  /\ UNCHANGED outcome

\* get_response returns a response and logger.info("", extra={...}) hands
\* the record to the logger.
LogEmit(i, now) ==
  /\ ResponseObtained(i, now)
  /\ log_result' = [log_result EXCEPT ![i] = [kind |-> "ok"]]
  /\ emitted' = [emitted EXCEPT ![i] =
                   Append(@, Extra(request'[i], response'[i], duration'[i]))]
  /\ trace' = [trace EXCEPT ![i] = @ \o << "response", "log" >>]
  /\ pc' = [pc EXCEPT ![i] = "return"]
  /\ UNCHANGED outcome

\* A variant of LogFail that swallows the failure of the logging statement.
LogFailSwallowed(i, now, exc) ==
  /\ ResponseObtained(i, now)
  /\ log_result' = [log_result EXCEPT ![i] = [kind |-> "raise", val |-> exc]]
  /\ trace' = [trace EXCEPT ![i] = Append(@, "response")]
  /\ pc' = [pc EXCEPT ![i] = "return"]
  /\ UNCHANGED << emitted, outcome >>

\* get_response returns a response and the logging statement raises exc:
\* nothing in __call__ catches it, and the clock reading `now` of line 15 is
\* lost with the frame.
LogFail(i, now, exc) ==
  /\ pc[i] = "downstream"
  /\ produced' = [produced EXCEPT ![i] =
                    [kind |-> "response", val |-> Downstream(i)]]
  /\ log_result' = [log_result EXCEPT ![i] = [kind |-> "raise", val |-> exc]]
  /\ outcome' = [outcome EXCEPT ![i] = [kind |-> "raise", val |-> exc]]
  /\ trace' = [trace EXCEPT ![i] = @ \o << "response", "raise" >>]
  /\ pc' = [pc EXCEPT ![i] = "raised"]
  /\ DropFrame(i)
  /\ UNCHANGED << instance, received, calls, emitted >>

\* A variant of Return that hands back a response it has rewritten.
ReturnRewritten(i) ==
  /\ pc[i] = "return"
  /\ outcome' = [outcome EXCEPT ![i] =
                   [kind |-> "return",
                    val |-> [response[i] EXCEPT !.content = ""]]]
  /\ trace' = [trace EXCEPT ![i] = Append(@, "return")]
  /\ pc' = [pc EXCEPT ![i] = "returned"]
  /\ DropFrame(i)
  /\ UNCHANGED << instance, received, calls, produced, log_result, emitted >>

\* return response
Return(i) ==
  /\ pc[i] = "return"
  /\ outcome' = [outcome EXCEPT ![i] = [kind |-> "return", val |-> response[i]]]
  /\ trace' = [trace EXCEPT ![i] = Append(@, "return")]
  /\ pc' = [pc EXCEPT ![i] = "returned"]
  /\ DropFrame(i)
  /\ UNCHANGED << instance, received, calls, produced, log_result, emitted >>

Next ==
  \/ \E i \in Inv, req \in Requests, now \in Clock : Call(i, req, now)
  \/ \E i \in Inv, exc \in DownstreamErrors : DownstreamRaise(i, exc)
  \/ \E i \in Inv, now \in Clock : LogEmit(i, now)
  \/ \E i \in Inv, now \in Clock, exc \in LoggingErrors : LogFail(i, now, exc)
  \/ \E i \in Inv : Return(i)

Spec == Init /\ [][Next]_vars

\* ------------------------------------------------------------- properties
RECURSIVE SumEmitted(_)
SumEmitted(n) == IF n = 0 THEN 0 ELSE Len(emitted[n]) + SumEmitted(n - 1)

\* The number of records handed to the logger so far.
TotalEmitted == SumEmitted(NumInv)

\* No invocation is in flight.
Quiet == \A i \in Inv : pc[i] \in {"idle", "returned", "raised"}

InFrame(i) == pc[i] = "return"

\* d is ticks / TicksPerMs truncated toward zero.
IsTruncation(d, ticks) ==
  IF ticks >= 0
    THEN d >= 0 /\ d * TicksPerMs <= ticks /\ ticks < (d + 1) * TicksPerMs
    ELSE d <= 0 /\ (d - 1) * TicksPerMs < ticks /\ ticks <= d * TicksPerMs

\* round(ticks / TicksPerMs): to the nearest integer, a tie to the even one.
PyRound(ticks) ==
  LET q == ticks \div TicksPerMs
      r == ticks - q * TicksPerMs
  IN  IF 2 * r < TicksPerMs THEN q
      ELSE IF 2 * r > TicksPerMs THEN q + 1
      ELSE IF q % 2 = 0 THEN q ELSE q + 1

\* C1 as stated: once no invocation is in flight, the number of log records
\* equals the number of invocations whose downstream handler returned a
\* response.
C1_RecordPerDownstreamResponse ==
  Quiet => TotalEmitted =
             Cardinality({i \in Inv : produced[i].kind = "response"})

\* C1 amended: no invocation emits more than one record, an invocation emits
\* its record only after its downstream handler returned a response, an
\* invocation that returns has emitted exactly one record, and once no
\* invocation is in flight the number of records equals the number of
\* invocations whose downstream handler returned a response and whose
\* logging statement did not fail.
C1_RecordPerLoggedResponse ==
  /\ \A i \in Inv :
       /\ Len(emitted[i]) <= 1
       /\ Len(emitted[i]) = 1 => produced[i].kind = "response"
       /\ pc[i] = "returned" => Len(emitted[i]) = 1
  /\ Quiet => TotalEmitted =
                Cardinality({i \in Inv : /\ produced[i].kind = "response"
                                         /\ log_result[i].kind = "ok"})

C1_Witness ==
  \E i, j \in Inv :
    /\ pc[i] = "returned" /\ Len(emitted[i]) = 1
    /\ pc[j] = "raised" /\ produced[j].kind = "response" /\ emitted[j] = << >>

\* C2: the value an invocation returns is the response its downstream handler
\* produced, with every field as the handler set it.
C2_ResponseUnmodified ==
  \A i \in Inv :
    /\ InFrame(i) => response[i] = produced[i].val
    /\ pc[i] = "returned" =>
         /\ produced[i].kind = "response"
         /\ outcome[i] = [kind |-> "return", val |-> produced[i].val]
         /\ outcome[i].val = Respond(supplied, received[i])

C2_Witness ==
  \E i \in Inv : pc[i] = "returned" /\ outcome[i].val.status_code = 404

\* C3: when the downstream handler raises, the invocation emits no record and
\* its caller observes the very failure the handler raised.
C3_DownstreamFailurePropagates ==
  \A i \in Inv :
    produced[i].kind = "raise" =>
      /\ pc[i] = "raised"
      /\ emitted[i] = << >>
      /\ log_result[i] = None
      /\ outcome[i] = [kind |-> "raise", val |-> produced[i].val]

C3_Witness ==
  \E i \in Inv : pc[i] = "raised" /\ produced[i] = [kind |-> "raise", val |-> "ValueError"]

\* C4: within one invocation the record is emitted after the downstream
\* response has been obtained and before the response is returned.
C4_LogBetweenResponseAndReturn ==
  \A i \in Inv :
    /\ \A k \in DOMAIN trace[i] :
         /\ trace[i][k] = "log" =>
              /\ \E j \in 1..(k - 1) : trace[i][j] = "response"
              /\ \A j \in 1..(k - 1) : trace[i][j] # "return"
         /\ trace[i][k] = "return" => \E j \in 1..(k - 1) : trace[i][j] = "log"
    /\ emitted[i] # << >> => produced[i].kind = "response"
    /\ outcome[i].kind = "return" => emitted[i] # << >>
    /\ pc[i] \in {"idle", "downstream"} => emitted[i] = << >>

C4_Witness ==
  \E i \in Inv : trace[i] = << "call", "response", "log", "return" >>

\* C5: every invocation calls the handler supplied at construction exactly
\* once and passes it the request it received, also when the handler or the
\* logging statement raises.
C5_DownstreamCalledOnce ==
  \A i \in Inv :
    /\ pc[i] = "idle" => calls[i] = << >>
    /\ pc[i] # "idle" =>
         calls[i] = << [handler |-> supplied, request |-> received[i]] >>

C5_Witness ==
  \E i, j \in Inv :
    /\ pc[i] = "raised" /\ produced[i].kind = "raise" /\ Len(calls[i]) = 1
    /\ pc[j] = "raised" /\ log_result[j].kind = "raise" /\ Len(calls[j]) = 1

\* C6 as stated: the duration of every emitted record is >= 0.
C6_DurationNonNegative ==
  \A i \in Inv : \A k \in DOMAIN emitted[i] : emitted[i][k].duration >= 0

\* C7 as stated: the duration is the elapsed time rounded to the nearest
\* millisecond.
C7_DurationRounded ==
  \A i \in Inv :
    InFrame(i) => duration[i] = PyRound(end_time[i] - start_time[i])

\* C7 amended: the duration is the elapsed time in milliseconds truncated
\* toward zero, and it is the duration the record carries.
C7_DurationTruncated ==
  \A i \in Inv :
    /\ InFrame(i) => IsTruncation(duration[i], end_time[i] - start_time[i])
    /\ pc[i] = "return" => emitted[i][1].duration = duration[i]

C7_Witness ==
  \E i \in Inv :
    /\ pc[i] = "return"
    /\ end_time[i] - start_time[i] = TicksPerMs - 1
    /\ emitted[i][1].duration = 0

\* C8: the user_agent of a record is the request's user-agent header when
\* the request has one and "-" when it has none.
C8_UserAgentOrDash ==
  \A i \in Inv : \A k \in DOMAIN emitted[i] :
    emitted[i][k].user_agent =
      IF "HTTP_USER_AGENT" \in DOMAIN received[i].META
        THEN received[i].META["HTTP_USER_AGENT"]
        ELSE "-"

C8_Witness ==
  \E i, j \in Inv :
    /\ emitted[i] # << >> /\ emitted[i][1].user_agent = "-"
    /\ "HTTP_USER_AGENT" \notin DOMAIN received[i].META
    /\ emitted[j] # << >> /\ emitted[j][1].user_agent = "curl/8.0"

\* C9: an invocation leaves get_response as constructed, and under every
\* interleaving its frame and its record hold its own request, its own
\* response and a duration computed from its own two clock readings.
C9_InvocationsIndependent ==
  /\ get_response = supplied
  /\ \A i \in Inv :
       /\ pc[i] \in {"downstream", "return"} =>
            /\ request[i] = received[i]
            /\ start_time[i] = clock_read[i][1]
       /\ InFrame(i) =>
            /\ response[i] = produced[i].val
            /\ end_time[i] = clock_read[i][2]
            /\ IsTruncation(duration[i], clock_read[i][2] - clock_read[i][1])
       /\ pc[i] = "return" =>
            emitted[i][1].duration = duration[i]
       /\ \A k \in DOMAIN emitted[i] :
            /\ emitted[i][k].method = received[i].method
            /\ emitted[i][k].path = received[i].path
            /\ emitted[i][k].user_agent = UserAgent(received[i])
            /\ emitted[i][k].status = produced[i].val.status_code
       /\ pc[i] = "returned" => outcome[i].val = produced[i].val

C9_Witness ==
  \E i, j \in Inv :
    /\ pc[i] = "return" /\ pc[j] = "return"
    /\ received[i] # received[j]
    /\ clock_read[i][1] # clock_read[j][1]
    /\ emitted[i][1].duration # emitted[j][1].duration
    /\ emitted[i][1].status # emitted[j][1].status

\* C10: when the logging statement raises after the downstream handler
\* returned a response, the caller observes that failure and no response,
\* and the downstream handler has been called once.
C10_LoggingFailurePropagates ==
  \A i \in Inv :
    log_result[i].kind = "raise" =>
      /\ produced[i].kind = "response"
      /\ pc[i] = "raised"
      /\ outcome[i] = [kind |-> "raise", val |-> log_result[i].val]
      /\ Len(calls[i]) = 1
      /\ emitted[i] = << >>

C10_Witness ==
  \E i \in Inv :
    /\ log_result[i] = [kind |-> "raise", val |-> "OSError"]
    /\ outcome[i].val = "OSError"
    /\ produced[i].kind = "response"

====
